---- MODULE Spec2Model ----
(***************************************************************************)
(* A model of prefect/task.py: task identity and the weak TASK_REGISTRY,   *)
(* copy, the dependency binder Task.__call__, serialization, and           *)
(* Parameter.                                                              *)
(*                                                                         *)
(* Python values are encoded as follows.  None is the string "None";       *)
(* Python strings that are compared with None are TLA+ strings; a task id  *)
(* is a tuple of one-character strings, so that slicing is meaningful; an  *)
(* object's __dict__ is a function from attribute names to values; an      *)
(* object reference (a task, a flow) is a natural number, 0 standing for   *)
(* "no flow"; the entry "cls" of a task's __dict__ stands for the object's  *)
(* class.                                                                  *)
(***************************************************************************)
EXTENDS Integers, Sequences, FiniteSets, TLC

VARIABLES
    tasks,          \* live task objects: handle -> __dict__
    TASK_REGISTRY,  \* id -> handle of a live task (weak values)
    flows,          \* flow objects: handle -> [tasks, edges]
    context,        \* prefect.context.Context: [flow, parameters]
    allocated,      \* number of task objects created so far
    uuids,          \* number of identifiers generate_uuid has issued
    calls,          \* number of calls of a task so far
    ret             \* the last operation: what it was given, returned or raised

vars == <<tasks, TASK_REGISTRY, flows, context, allocated, uuids, calls, ret>>

---------------------------------------------------------------------------
(* Bounds of the model. *)

MaxTasks == 2       \* task objects ever created
MaxFlows == 1       \* flow objects ever created
MaxCalls == 1       \* calls of a task
UuidLen == 10       \* characters of a generated identifier (36 in Python)

(* Program constants. *)

ShortLen == 8               \* short_id: self._id[:8]
DefaultMaxRetries == 0      \* max_retries=0
DefaultRetryDelay == 60     \* retry_delay=timedelta(minutes=1), in seconds

None == "None"
NoFlow == 0

Min(a, b) == IF a < b THEN a ELSE b

(* Python's s[:n] *)
Prefix(s, n) == SubSeq(s, 1, Min(n, Len(s)))

---------------------------------------------------------------------------
(* Identification *)

Digits == <<"1", "2", "3", "4", "5", "6", "7", "8", "9">>

(* prefect.utilities.ids.generate_uuid: the n-th identifier issued; no two *)
(* are equal and none equals an identifier chosen by a caller.             *)
generate_uuid(n) ==
    [i \in 1..UuidLen |-> IF i = 1 THEN Digits[n] ELSE IF i = UuidLen THEN "f" ELSE "0"]

(* Task.id (getter) *)
id(w, h) == w.tasks[h]._id

(* Task.register: TASK_REGISTRY[self.id] = self *)
register(w, h) ==
    [w EXCEPT !.registry = (id(w, h) :> h) @@ @]

(* The setter without its call of register *)
id_setter_unregistered(w, h, value) ==
    [w EXCEPT !.tasks[h] = ("_id" :> value) @@ @]

(* Task.id (setter): self._id = value; self.register() *)
id_setter(w, h, value) ==
    register([w EXCEPT !.tasks[h] = ("_id" :> value) @@ @], h)

(* Task.short_id *)
short_id(w, h) == Prefix(w.tasks[h]._id, ShortLen)

(* Task.__setstate__: self.__dict__.update(state); self.register() *)
setstate(w, h, state) ==
    register([w EXCEPT !.tasks[h] = state @@ @], h)

(* A deep copy: the new object gets a dict of its own for secrets *)
copy_copy_deep(w, h, new) ==
    setstate([w EXCEPT !.tasks = (new :> [cls |-> w.tasks[h].cls]) @@ @],
             new, [w.tasks[h] EXCEPT !.secrets = <<"dict", new>>])

(* copy.copy(self): a new object of the same class whose state is restored *)
(* from self.__dict__ through __setstate__, attribute values shared.       *)
copy_copy(w, h, new) ==
    setstate([w EXCEPT !.tasks = (new :> [cls |-> w.tasks[h].cls]) @@ @],
             new, w.tasks[h])

(* copy without the fresh identifier *)
copy_keeping_id(w, h, new, uuid) ==
    register(copy_copy(w, h, new), new)

(* Task.copy *)
copy(w, h, new, uuid) ==
    register(id_setter(copy_copy(w, h, new), new, uuid), new)

---------------------------------------------------------------------------
(* Construction *)

(* prefect.__version__ *)
prefect_version == "0.2"

(* x or y, for a string or None x *)
Or(x, y) == IF x \in {None, ""} THEN y ELSE x

(* A secrets argument that is None or an empty mapping, and the reference  *)
(* to a non-empty mapping the caller owns.  <<"dict", h>> is the reference *)
(* to the dict the constructor of object h creates.                        *)
NoSecrets == <<>>
CallersDict == <<"dict", 0>>

\* Keyword arguments given to the constructor: all defaulted, all given, or an empty name.
DefaultArgs ==
    [name |-> None, description |-> None, max_retries |-> DefaultMaxRetries,
     retry_delay |-> DefaultRetryDelay, timeout |-> None, trigger |-> None,
     secrets |-> NoSecrets]

TaskArgs ==
    { DefaultArgs,
      [name |-> "n", description |-> "d", max_retries |-> 2,
       retry_delay |-> 5, timeout |-> "30s", trigger |-> "any_failed",
       secrets |-> CallersDict],
      [name |-> "", description |-> None, max_retries |-> DefaultMaxRetries,
       retry_delay |-> DefaultRetryDelay, timeout |-> None, trigger |-> None,
       secrets |-> NoSecrets] }


(* Task.__init__ up to and including self.register() and the version; the  *)
(* object h exists with the attributes a subclass constructor has set.     *)
(* secrets: the caller's mapping, or a new empty dict owned by h.          *)
Task_init(w, h, cls, kw, uuid) ==
    LET w1 == id_setter(w, h, uuid)
        attrs == [cls |-> cls,
                  name |-> Or(kw.name, cls),
                  description |-> kw.description,
                  max_retries |-> kw.max_retries,
                  retry_delay |-> kw.retry_delay,
                  timeout |-> kw.timeout,
                  trigger |-> IF kw.trigger = None THEN "all_successful" ELSE kw.trigger,
                  secrets |-> IF kw.secrets = NoSecrets THEN <<"dict", h>> ELSE kw.secrets]
        w2 == register([w1 EXCEPT !.tasks[h] = attrs @@ @], h)
    IN  [w2 EXCEPT !.tasks[h] = ("_prefect_version" :> prefect_version) @@ @]

(* Parameter.__init__ taking required as given *)
Parameter_init_required_kept(w, h, name, default, required, uuid) ==
    LET w1 == [w EXCEPT !.tasks[h] = [required |-> required, default |-> default] @@ @]
    IN  Task_init(w1, h, "Parameter", [DefaultArgs EXCEPT !.name = name], uuid)

(* Parameter.__init__ *)
Parameter_init(w, h, name, default, required, uuid) ==
    LET req == IF default # None THEN FALSE ELSE required
        w1 == [w EXCEPT !.tasks[h] = [required |-> req, default |-> default] @@ @]
    IN  Task_init(w1, h, "Parameter", [DefaultArgs EXCEPT !.name = name], uuid)

(* Flow.add_task: adding a node already present changes nothing *)
add_task(fl, f, h) == [fl EXCEPT ![f].tasks = @ \cup {h}]

(* Task.__init__, last lines: flow = Context.get('flow'); if flow: ... *)
init_add_to_flow(fl, ctx, h) ==
    IF ctx.flow # NoFlow THEN add_task(fl, ctx.flow, h) ELSE fl

---------------------------------------------------------------------------
(* Serialization *)

(* Serializable.serialize, the base class's part of the mapping *)
Serializable_serialize(w, h) == <<>>

(* serialize naming the base class as the type *)
serialize_base_type(w, h) ==
    LET t == w.tasks[h]
    IN  [name |-> t.name, id |-> w.tasks[h]._id, description |-> t.description,
         max_retries |-> t.max_retries, retry_delay |-> t.retry_delay,
         timeout |-> t.timeout, trigger |-> t.trigger, type |-> "Task",
         prefect_version |-> t._prefect_version]

(* Task.serialize *)
serialize(w, h) ==
    LET t == w.tasks[h]
    IN  [name |-> t.name,
         id |-> id(w, h),
         description |-> t.description,
         max_retries |-> t.max_retries,
         retry_delay |-> t.retry_delay,
         timeout |-> t.timeout,
         trigger |-> t.trigger,
         type |-> t.cls,
         prefect_version |-> t._prefect_version] @@ Serializable_serialize(w, h)

(* after_deserialize leaving the identifier generated at reconstruction *)
after_deserialize_id_kept(w, h, serialized) ==
    register(w, h)

(* Task.after_deserialize *)
after_deserialize(w, h, serialized) ==
    register(id_setter(w, h, serialized.id), h)

(* Serializable.deserialize, first part: an object h of the class named by *)
(* serialized.type is constructed from the mapping's configuration.        *)
reconstruct(w, h, serialized, uuid) ==
    LET w0 == [w EXCEPT !.tasks = (h :> [cls |-> serialized.type]) @@ @]
    IN  IF serialized.type = "Parameter"
        THEN Parameter_init(w0, h, serialized.name, None, TRUE, uuid)
        ELSE Task_init(w0, h, serialized.type,
                       [name |-> serialized.name,
                        description |-> serialized.description,
                        max_retries |-> serialized.max_retries,
                        retry_delay |-> serialized.retry_delay,
                        timeout |-> serialized.timeout,
                        trigger |-> serialized.trigger,
                        secrets |-> NoSecrets],
                       uuid)

(* Serializable.deserialize *)
deserialize(w, h, serialized, uuid) ==
    after_deserialize(reconstruct(w, h, serialized, uuid), h, serialized)

---------------------------------------------------------------------------
(* Dependencies *)

(* The work functions: run(self) of Task and Parameter, and of two         *)
(* subclasses, run(self, x, y, c=None) and run(self, x, **kw).  Each       *)
(* parameter is positional-or-keyword; varkw names the variable-keyword    *)
(* parameter, if any.                                                      *)
Signature(cls) ==
    CASE cls = "XYC" ->
           [params |-> << [name |-> "x", required |-> TRUE],
                          [name |-> "y", required |-> TRUE],
                          [name |-> "c", required |-> FALSE] >>,
            varkw |-> None]
      [] cls = "XKw" ->
           [params |-> << [name |-> "x", required |-> TRUE] >>, varkw |-> "kw"]
      [] OTHER -> [params |-> <<>>, varkw |-> None]

(* Task.inputs *)
inputs(cls) ==
    LET sig == Signature(cls)
    IN  [i \in 1..Len(sig.params) |-> sig.params[i].name]
        \o (IF sig.varkw = None THEN <<>> ELSE <<sig.varkw>>)

Restrict(f, S) == [k \in S |-> f[k]]

(* inspect.Signature.bind(args, kwargs).  error is the TypeError bind      *)
(* raises, or None: the positional arguments are matched first, in order,  *)
(* then the remaining parameters, then the keywords left over.  arguments  *)
(* holds the explicitly bound parameters and, when keywords were absorbed, *)
(* the variable-keyword parameter's dict.                                  *)
signature_bind(sig, args, kwargs) ==
    LET n == Len(sig.params)
        names == {sig.params[i].name : i \in 1..n}
        positional == [k \in {sig.params[i].name : i \in 1..Min(n, Len(args))} |->
                         args[CHOOSE i \in 1..n : sig.params[i].name = k]]
        keyword == Restrict(kwargs, DOMAIN kwargs \cap names)
        extra == Restrict(kwargs, DOMAIN kwargs \ names)
        badpos == {i \in 1..Len(args) : i > n \/ sig.params[Min(i, n)].name \in DOMAIN kwargs}
        first == CHOOSE i \in badpos : \A j \in badpos : i <= j
        missing == \E i \in (Len(args) + 1)..n :
                      sig.params[i].required /\ sig.params[i].name \notin DOMAIN kwargs
        error == IF badpos # {}
                 THEN (IF first > n THEN "too many positional arguments"
                                    ELSE "multiple values for argument")
                 ELSE IF missing THEN "missing a required argument"
                 ELSE IF DOMAIN extra # {} /\ sig.varkw = None
                      THEN "got an unexpected keyword argument"
                 ELSE None
    IN  [error |-> error,
         arguments |-> IF error # None THEN <<>>
                       ELSE IF DOMAIN extra # {}
                            THEN (sig.varkw :> extra) @@ positional @@ keyword
                            ELSE positional @@ keyword]

(* prefect.utilities.functions.get_var_kw_arg *)
get_var_kw_arg(cls) == Signature(cls).varkw

(* The expansion with get in place of pop: the capture entry stays *)
expand_callargs_unpopped(arguments, var_kw_arg) ==
    LET popped == IF var_kw_arg \in DOMAIN arguments THEN arguments[var_kw_arg] ELSE <<>>
    IN  popped @@ arguments

(* Task.__call__, lines 110-114: callargs.update(callargs.pop(var, {})) *)
expand_callargs(arguments, var_kw_arg) ==
    LET popped == IF var_kw_arg \in DOMAIN arguments THEN arguments[var_kw_arg] ELSE <<>>
        callargs == Restrict(arguments, DOMAIN arguments \ {var_kw_arg})
    IN  popped @@ callargs

(* prefect.flow.Flow() *)
NewFlow == [tasks |-> {}, edges |-> {}]

(* Flow.set_dependencies(task, keyword_results): the node, and one edge    *)
(* per entry of keyword_results.                                           *)
set_dependencies(fl, f, h, keyword_results) ==
    [add_task(fl, f, h) EXCEPT ![f].edges = @ \cup
        { [upstream |-> keyword_results[k], downstream |-> h, key |-> k] :
            k \in DOMAIN keyword_results }]

(* __call__ resolving the flow before it binds the arguments *)
Task_call_flow_first(fl, ctx, h, cls, args, kwargs) ==
    LET b == CHOOSE r \in {signature_bind(Signature(cls), args, kwargs)} : TRUE
        created == ctx.flow = NoFlow
        f == IF created THEN Cardinality(DOMAIN fl) + 1 ELSE ctx.flow
        fl1 == IF created THEN (f :> NewFlow) @@ fl ELSE fl
    IN  IF b.error # None
        THEN [raised |-> "TypeError", message |-> b.error, fl |-> fl1,
              flow |-> NoFlow, ambient |-> ctx.flow]
        ELSE [raised |-> None, message |-> None,
              fl |-> set_dependencies(fl1, f, h,
                        expand_callargs(b.arguments, get_var_kw_arg(cls))),
              flow |-> f, ambient |-> ctx.flow]

(* __call__ ignoring the flow in Context *)
Task_call_always_new(fl, ctx, h, cls, args, kwargs) ==
    LET b == CHOOSE r \in {signature_bind(Signature(cls), args, kwargs)} : TRUE
        f == Cardinality(DOMAIN fl) + 1
    IN  IF b.error # None
        THEN [raised |-> "TypeError", message |-> b.error, fl |-> fl,
              flow |-> NoFlow, ambient |-> ctx.flow]
        ELSE [raised |-> None, message |-> None,
              fl |-> set_dependencies((f :> NewFlow) @@ fl, f, h,
                        expand_callargs(b.arguments, get_var_kw_arg(cls))),
              flow |-> f, ambient |-> ctx.flow]

(* Task.__call__: what it raises, the flows after it, the flow it         *)
(* resolved, and what Context.get('flow') answers while set_dependencies   *)
(* runs.  No flow is resolved or created when bind raises.                 *)
Task_call(fl, ctx, h, cls, args, kwargs) ==
    LET b == CHOOSE r \in {signature_bind(Signature(cls), args, kwargs)} : TRUE
    IN  IF b.error # None
        THEN [raised |-> "TypeError", message |-> b.error, fl |-> fl,
              flow |-> NoFlow, ambient |-> ctx.flow]
        ELSE LET callargs == expand_callargs(b.arguments, get_var_kw_arg(cls))
                 created == ctx.flow = NoFlow
                 f == IF created THEN Cardinality(DOMAIN fl) + 1 ELSE ctx.flow
                 fl1 == IF created THEN (f :> NewFlow) @@ fl ELSE fl
             IN  [raised |-> None, message |-> None,
                  fl |-> set_dependencies(fl1, f, h, callargs),
                  flow |-> f, ambient |-> ctx.flow]

---------------------------------------------------------------------------
(* Run *)

(* The message of the FAIL signal, as the pieces format() joins *)
FailMessage(name) == <<"Parameter \"", name, "\" was required but not provided.">>

(* Parameter.run, with params = Context.get('parameters', {}) *)
Parameter_run(t, params) ==
    IF t.required /\ t.name \notin DOMAIN params
    THEN [raised |-> "FAIL", message |-> FailMessage(t.name)]
    ELSE [raised |-> None,
          value |-> IF t.name \in DOMAIN params THEN params[t.name] ELSE t.default]

---------------------------------------------------------------------------
(* The operations *)

World == [tasks |-> tasks, registry |-> TASK_REGISTRY]

SetWorld(w) ==
    /\ tasks' = w.tasks
    /\ TASK_REGISTRY' = w.registry

(* Classes with the constructor of Task *)
TaskClasses == {"Task", "XYC", "XKw"}

\* t = Task(name=..., description=..., ...), or a subclass
Construct(cls, kw) ==
    /\ allocated < MaxTasks
    /\ LET h == allocated + 1
           w == Task_init([World EXCEPT !.tasks = (h :> [cls |-> cls]) @@ @],
                          h, cls, kw, generate_uuid(uuids + 1))
       IN  /\ SetWorld(w)
           /\ flows' = init_add_to_flow(flows, context, h)
           /\ ret' = [op |-> "construct", result |-> h]
    /\ allocated' = allocated + 1
    /\ uuids' = uuids + 1
    /\ UNCHANGED <<context, calls>>

\* p = Parameter(name, default, required)
ConstructParameter(name, default, required) ==
    /\ allocated < MaxTasks
    /\ LET h == allocated + 1
           w == Parameter_init([World EXCEPT !.tasks = (h :> [cls |-> "Parameter"]) @@ @],
                               h, name, default, required,
                               generate_uuid(uuids + 1))
       IN  /\ SetWorld(w)
           /\ flows' = init_add_to_flow(flows, context, h)
           /\ ret' = [op |-> "construct_parameter", result |-> h,
                      default |-> default, required |-> required]
    /\ allocated' = allocated + 1
    /\ uuids' = uuids + 1
    /\ UNCHANGED <<context, calls>>

(* t.id = x *)
SetId(h, x) ==
    /\ SetWorld(id_setter(World, h, x))
    /\ ret' = [op |-> "set_id", task |-> h, value |-> x]
    /\ UNCHANGED <<flows, context, allocated, uuids, calls>>

(* t2 = t.copy() *)
Copy(h) ==
    /\ allocated < MaxTasks
    /\ LET new == allocated + 1
       IN  /\ SetWorld(copy(World, h, new, generate_uuid(uuids + 1)))
           /\ ret' = [op |-> "copy", task |-> h, result |-> new]
    /\ allocated' = allocated + 1
    /\ uuids' = uuids + 1
    /\ UNCHANGED <<flows, context, calls>>

(* m = t.serialize() *)
Serialize(h) ==
    /\ ret' = [op |-> "serialize", task |-> h, result |-> serialize(World, h)]
    /\ UNCHANGED <<tasks, TASK_REGISTRY, flows, context, allocated, uuids, calls>>

(* A mapping serialized by another process *)
ForeignMapping ==
    [name |-> "n", id |-> generate_uuid(Len(Digits)), description |-> None,
     max_retries |-> 2, retry_delay |-> 5, timeout |-> None,
     trigger |-> "all_successful", type |-> "Task", prefect_version |-> "0.1"]

(* The mappings deserialize may be given: what serialize returns for a     *)
(* live task, or a mapping from elsewhere.                                 *)
Mappings == {serialize(World, h) : h \in DOMAIN tasks} \cup {ForeignMapping}

(* t2 = Task.deserialize(m) *)
Deserialize(m) ==
    /\ allocated < MaxTasks
    /\ LET h == allocated + 1
       IN  /\ SetWorld(deserialize(World, h, m, generate_uuid(uuids + 1)))
           /\ flows' = init_add_to_flow(flows, context, h)
           /\ ret' = [op |-> "deserialize", mapping |-> m, result |-> h]
    /\ allocated' = allocated + 1
    /\ uuids' = uuids + 1
    /\ UNCHANGED <<context, calls>>

(* The last reference to task h goes away: the WeakValueDictionary drops   *)
(* the entries whose value it was.  A flow keeps its nodes alive.          *)
Drop(h) ==
    /\ \A f \in DOMAIN flows : h \notin flows[f].tasks
    /\ tasks' = Restrict(tasks, DOMAIN tasks \ {h})
    /\ TASK_REGISTRY' = Restrict(TASK_REGISTRY,
                                 {i \in DOMAIN TASK_REGISTRY : TASK_REGISTRY[i] # h})
    /\ ret' = [op |-> "drop", task |-> h]
    /\ UNCHANGED <<flows, context, allocated, uuids, calls>>

(* with Flow() as f: the context manager sets Context's flow *)
EnterFlow ==
    /\ context.flow = NoFlow
    /\ Cardinality(DOMAIN flows) < MaxFlows
    /\ LET f == Cardinality(DOMAIN flows) + 1
       IN  /\ flows' = (f :> NewFlow) @@ flows
           /\ context' = [context EXCEPT !.flow = f]
    /\ ret' = [op |-> "enter_flow"]
    /\ UNCHANGED <<tasks, TASK_REGISTRY, allocated, uuids, calls>>

(* the with block ends *)
ExitFlow ==
    /\ context.flow # NoFlow
    /\ context' = [context EXCEPT !.flow = NoFlow]
    /\ ret' = [op |-> "exit_flow"]
    /\ UNCHANGED <<tasks, TASK_REGISTRY, flows, allocated, uuids, calls>>

(* Positional and keyword arguments of a call *)
Lit(v) == [lit |-> v]
ArgLists == { <<>>, <<Lit(5)>>, <<Lit(5), Lit(7)>>, <<Lit(5), Lit(7), Lit(1)>> }
KwValues == [y |-> Lit(5), c |-> Lit(1), z |-> Lit(9), kw |-> Lit(5)]
KwArgs == { Restrict(KwValues, S) :
              S \in { {}, {"c"}, {"y"}, {"z"}, {"kw"}, {"y", "c"}, {"z", "kw"} } }

(* task(args, kwargs) *)
Call(h, args, kwargs) ==
    /\ calls < MaxCalls
    /\ context.flow = NoFlow => Cardinality(DOMAIN flows) < MaxFlows
    /\ \E r \in {Task_call(flows, context, h, tasks[h].cls, args, kwargs)} :
           /\ flows' = r.fl
           /\ calls' = calls + 1
           /\ ret' = IF r.raised = None
                      THEN [op |-> "call", task |-> h, args |-> args, kwargs |-> kwargs,
                            raised |-> None, flow |-> r.flow, ambient |-> r.ambient]
                      ELSE [op |-> "call", task |-> h, raised |-> r.raised,
                            message |-> r.message, ambient |-> r.ambient]
    /\ UNCHANGED <<tasks, TASK_REGISTRY, context, allocated, uuids>>

(* The runtime parameters in Context *)
ParameterMaps == { <<>>, [n |-> "9"], [Parameter |-> "9"], [n |-> None, m |-> "9"] }

SetParameters(m) ==
    /\ context.parameters # m
    /\ context' = [context EXCEPT !.parameters = m]
    /\ ret' = [op |-> "set_parameters"]
    /\ UNCHANGED <<tasks, TASK_REGISTRY, flows, allocated, uuids, calls>>

(* p.run() *)
Run(h) ==
    /\ tasks[h].cls = "Parameter"
    /\ ret' = [op |-> "run", task |-> h] @@ Parameter_run(tasks[h], context.parameters)
    /\ UNCHANGED <<tasks, TASK_REGISTRY, flows, context, allocated, uuids, calls>>

Init ==
    /\ tasks = <<>>
    /\ TASK_REGISTRY = <<>>
    /\ flows = <<>>
    /\ context = [flow |-> NoFlow, parameters |-> <<>>]
    /\ allocated = 0
    /\ uuids = 0
    /\ calls = 0
    /\ ret = [op |-> "init"]

(* The identifiers a caller assigns: those of the live tasks *)
AssignableIds == {tasks[u]._id : u \in DOMAIN tasks}

ParameterNames == {"n", ""}
ParameterDefaults == {None, "5"}

(* Identity, registry and serialization *)
NextRegistry ==
    \/ \E kw \in TaskArgs : Construct("Task", kw)
    \/ ConstructParameter("n", "5", TRUE)
    \/ \E h \in DOMAIN tasks : \E x \in AssignableIds : SetId(h, x)
    \/ \E h \in DOMAIN tasks : Copy(h)
    \/ \E h \in DOMAIN tasks : Serialize(h)
    \/ \E m \in Mappings : Deserialize(m)
    \/ \E h \in DOMAIN tasks : Drop(h)

SpecRegistry == Init /\ [][NextRegistry]_vars

(* The dependency binder *)
NextBind ==
    \/ \E cls \in TaskClasses : Construct(cls, DefaultArgs)
    \/ EnterFlow
    \/ ExitFlow
    \/ \E h \in DOMAIN tasks : \E args \in ArgLists, kwargs \in KwArgs :
         Call(h, args, kwargs)

SpecBind == Init /\ [][NextBind]_vars

(* Parameters at run time *)
NextParameter ==
    \/ \E n \in ParameterNames, d \in ParameterDefaults, r \in BOOLEAN :
         ConstructParameter(n, d, r)
    \/ \E m \in ParameterMaps : SetParameters(m)
    \/ \E h \in DOMAIN tasks : Run(h)

SpecParameter == Init /\ [][NextParameter]_vars

Next == NextRegistry \/ NextBind \/ NextParameter

Spec == Init /\ [][Next]_vars

---------------------------------------------------------------------------
(* Properties *)

Live == DOMAIN tasks

ConfigFields == {"name", "description", "max_retries", "retry_delay", "timeout",
                 "trigger", "secrets"}

SerializedFields == {"name", "description", "max_retries", "retry_delay", "timeout",
                     "trigger"}

(* s is the first n characters of x, or all of x if x is shorter *)
IsPrefixOf(s, x, n) ==
    /\ Len(s) = Min(n, Len(x))
    /\ \A i \in 1..Len(s) : s[i] = x[i]

(* C1: immediately after t.id = x, a registry lookup of x returns t, and   *)
(* t.short_id is the first 8 characters of x.                              *)
C1_IdAssignment ==
    ret.op = "set_id" =>
        /\ ret.value \in DOMAIN TASK_REGISTRY
        /\ TASK_REGISTRY[ret.value] = ret.task
        /\ IsPrefixOf(short_id(World, ret.task), ret.value, 8)

(* C1: t was given the identifier another live task holds, an identifier   *)
(* longer than 8 characters.                                               *)
C1_Witness ==
    /\ ret.op = "set_id"
    /\ Len(ret.value) > 8
    /\ \E u \in Live \ {ret.task} : tasks[u]._id = ret.value

(* C2, as claimed: every live task has an id and no two distinct live      *)
(* tasks have the same id.                                                 *)
C2_UniqueIds ==
    /\ \A h \in Live : "_id" \in DOMAIN tasks[h]
    /\ \A h1, h2 \in Live : h1 # h2 => tasks[h1]._id # tasks[h2]._id

(* C2, amended: every live task has an id, and a task that construction or *)
(* copy has just produced has an id that no other live task has.           *)
C2_FreshIds ==
    /\ \A h \in Live : "_id" \in DOMAIN tasks[h]
    /\ ret.op \in {"construct", "construct_parameter", "copy"} =>
         \A u \in Live \ {ret.result} : tasks[u]._id # tasks[ret.result]._id

(* C2: a task was copied, and the original and the copy are live *)
C2_Witness ==
    /\ ret.op = "copy"
    /\ {ret.task, ret.result} \subseteq Live
    /\ Cardinality(Live) >= 2

(* C3: copy(t) returns a distinct task t2 with another id, registered      *)
(* under its id, whose configuration fields equal t's, secrets being the   *)
(* same object.                                                            *)
C3_Copy ==
    ret.op = "copy" =>
        /\ ret.result # ret.task
        /\ ret.result \in Live
        /\ tasks[ret.result]._id # tasks[ret.task]._id
        /\ tasks[ret.result]._id \in DOMAIN TASK_REGISTRY
        /\ TASK_REGISTRY[tasks[ret.result]._id] = ret.result
        /\ \A f \in ConfigFields : tasks[ret.result][f] = tasks[ret.task][f]

(* C3: a task with a caller's secrets mapping and its own configuration    *)
(* was copied.                                                             *)
C3_Witness ==
    /\ ret.op = "copy"
    /\ tasks[ret.task].secrets = CallersDict
    /\ tasks[ret.task].name = "n"

(* C4: deserialize(m) yields a task whose id is m's id, not the one        *)
(* generated while it was reconstructed, registered under that id; if m is *)
(* serialize(t) it has t's id, name, description, max_retries,             *)
(* retry_delay, timeout and trigger.                                       *)
C4_RoundTrip ==
    ret.op = "deserialize" =>
        /\ tasks[ret.result]._id = ret.mapping.id
        /\ ret.mapping.id \in DOMAIN TASK_REGISTRY
        /\ TASK_REGISTRY[ret.mapping.id] = ret.result
        /\ \A t \in Live \ {ret.result} :
             serialize(World, t) = ret.mapping =>
                /\ tasks[ret.result]._id = tasks[t]._id
                /\ \A f \in SerializedFields : tasks[ret.result][f] = tasks[t][f]

(* C4: the mapping deserialized is that of a live task with a              *)
(* configuration of its own.                                               *)
C4_Witness ==
    /\ ret.op = "deserialize"
    /\ \E t \in Live \ {ret.result} :
         /\ serialize(World, t) = ret.mapping
         /\ tasks[t].name = "n"
         /\ tasks[t].timeout = "30s"

(* C5, as claimed: the keys of serialize() are exactly name, id,           *)
(* description, max_retries, retry_delay, timeout, trigger, type, version. *)
C5_KeysWithVersion ==
    ret.op = "serialize" =>
        DOMAIN ret.result = {"name", "id", "description", "max_retries",
                             "retry_delay", "timeout", "trigger", "type", "version"}

(* What serialize() returned for the task *)
C5_Mapping ==
    ret.op = "serialize" =>
        /\ DOMAIN ret.result = {"name", "id", "description", "max_retries",
                                "retry_delay", "timeout", "trigger", "type",
                                "prefect_version"}
        /\ ret.result.type = tasks[ret.task].cls
        /\ ret.result.prefect_version = tasks[ret.task]._prefect_version

(* The version of a task just constructed is the system's *)
C5_Captured ==
    ret.op \in {"construct", "construct_parameter", "deserialize"} =>
        tasks[ret.result]._prefect_version = prefect_version

(* C5, amended: the keys of serialize() are exactly name, id, description, *)
(* max_retries, retry_delay, timeout, trigger, type, prefect_version; type *)
(* is the task's class name and prefect_version the version captured at    *)
(* construction, which no later operation changes.                         *)
C5_Serialize ==
    /\ [](C5_Mapping /\ C5_Captured)
    /\ [][\A h \in Live \cap DOMAIN tasks' :
            tasks'[h]._prefect_version = tasks[h]._prefect_version]_vars

(* C5: a Parameter was serialized *)
C5_Witness ==
    /\ ret.op = "serialize"
    /\ tasks[ret.task].cls = "Parameter"

(* The binding map the claim describes: each positional argument under the *)
(* name of the parameter at its position, each keyword under its own name. *)
BindingMap(cls, args, kwargs) ==
    LET names == inputs(cls)
    IN  [k \in {names[i] : i \in 1..Len(args)} \cup DOMAIN kwargs |->
            IF k \in DOMAIN kwargs THEN kwargs[k]
            ELSE args[CHOOSE i \in 1..Len(args) : names[i] = k]]

EdgesOf(fl, f) == IF f \in DOMAIN fl THEN fl[f].edges ELSE {}
NodesOf(fl, f) == IF f \in DOMAIN fl THEN fl[f].tasks ELSE {}

(* C6: a successful call makes the task a node of the resolved flow and    *)
(* adds exactly the edges of the binding map, one per entry, from the      *)
(* bound value to the task, labelled with the parameter name.              *)
C6_Edges ==
    [][(calls' = calls + 1 /\ ret'.raised = None) =>
         LET h == ret'.task
             f == ret'.flow
             m == BindingMap(tasks[h].cls, ret'.args, ret'.kwargs)
             added == { [upstream |-> m[k], downstream |-> h, key |-> k] :
                          k \in DOMAIN m }
         IN  /\ f \in DOMAIN flows'
             /\ flows'[f].tasks = NodesOf(flows, f) \cup {h}
             /\ flows'[f].edges = EdgesOf(flows, f) \cup added
             /\ Cardinality(added) = Cardinality(DOMAIN m)
             /\ \A e \in flows'[f].edges : DOMAIN e.upstream = {"lit"}]_vars

(* C6: a task with a capture parameter was called with x and an absorbed   *)
(* keyword bound to the same value: two edges from that value.             *)
C6_Witness ==
    /\ ret.op = "call"
    /\ ret.raised = None
    /\ tasks[ret.task].cls = "XKw"
    /\ \E e1, e2 \in flows[ret.flow].edges :
         /\ e1.key = "x" /\ e2.key = "kw"
         /\ e1.upstream = e2.upstream
         /\ e1.downstream = ret.task /\ e2.downstream = ret.task

(* The arguments cannot be bound: a required parameter is left without a   *)
(* value, a parameter is given one twice, or a keyword is unrecognized and *)
(* there is no capture parameter.                                          *)
Unbindable(cls, args, kwargs) ==
    LET sig == Signature(cls)
        n == Len(sig.params)
    IN  \/ \E i \in 1..n : /\ sig.params[i].required
                           /\ i > Len(args)
                           /\ sig.params[i].name \notin DOMAIN kwargs
        \/ \E i \in 1..Min(n, Len(args)) : sig.params[i].name \in DOMAIN kwargs
        \/ /\ sig.varkw = None
           /\ \E k \in DOMAIN kwargs : \A i \in 1..n : sig.params[i].name # k

(* C7: a call whose arguments cannot be bound raises the binding error     *)
(* (bind's TypeError): no call that returns had such arguments; and a call *)
(* that raises it leaves every flow as it was and creates none.            *)
C7_BindingError ==
    [][(calls' = calls + 1) =>
         /\ ret'.raised \in {None, "TypeError"}
         /\ ret'.raised = "TypeError" => flows' = flows
         /\ ret'.raised = None =>
              ~Unbindable(tasks[ret'.task].cls, ret'.args, ret'.kwargs)]_vars

(* C7: a call with an unrecognized keyword failed where no flow exists *)
C7_Witness ==
    /\ ret.op = "call"
    /\ ret.raised = "TypeError"
    /\ ret.message = "got an unexpected keyword argument"
    /\ context.flow = NoFlow
    /\ DOMAIN flows = {}

(* C8, as claimed: the flow a successful call registers in is the ambient  *)
(* flow while it registers, the one it created if there was none.          *)
C8_ResolvedIsAmbient ==
    (ret.op = "call" /\ ret.raised = None) => ret.ambient = ret.flow

(* C8, amended: with an ambient flow the node and edges go to it and no    *)
(* flow is created; without one the call creates one new empty flow and    *)
(* registers the node and edges in it, and Context still has no flow.      *)
C8_ResolvedFlow ==
    [][(calls' = calls + 1 /\ ret'.raised = None) =>
         LET f == ret'.flow
             h == ret'.task
         IN  /\ h \in flows'[f].tasks
             /\ \A g \in DOMAIN flows : g # f => flows'[g] = flows[g]
             /\ context' = context
             /\ ret'.ambient = context.flow
             /\ IF context.flow # NoFlow
                THEN /\ f = context.flow
                     /\ DOMAIN flows' = DOMAIN flows
                ELSE /\ f \notin DOMAIN flows
                     /\ DOMAIN flows' = DOMAIN flows \cup {f}
                     /\ flows'[f].tasks = {h}
                     /\ \A e \in flows'[f].edges : e.downstream = h]_vars

(* C8: a call succeeded with no ambient flow, with an argument *)
C8_Witness ==
    /\ ret.op = "call"
    /\ ret.raised = None
    /\ context.flow = NoFlow
    /\ flows[ret.flow].edges # {}

C10_OriginalStaysRegistered ==
    ret.op = "copy" =>
        /\ tasks[ret.task]._id \in DOMAIN TASK_REGISTRY
        /\ TASK_REGISTRY[tasks[ret.task]._id] = ret.task

====
